---- MODULE Spec2Model ----
(***************************************************************************)
(* The EV charging dashboard of summary_final.py as a state machine.       *)
(*                                                                         *)
(* The script is a Streamlit page: it runs from top to bottom once when    *)
(* the page is opened and once more after every widget change.  One run    *)
(* is one action.  A run reads the two input files, derives the dataset    *)
(* df, reads the sidebar widgets into a selection, filters, and either     *)
(* stops with the "no data" warning or computes the aggregates.            *)
(*                                                                         *)
(* Representation                                                          *)
(*   timestamps   whole hours since 1970-01-01 00:00 (naive)               *)
(*   dates        whole days since 1970-01-01 (a Thursday)                 *)
(*   latitude     whole degrees                                            *)
(*   NaN / None   a value that may be missing is a sequence of length 0    *)
(*                (missing) or 1 (present)                                 *)
(*   a mean       the fraction [num, den]; NaN is 0/0                      *)
(***************************************************************************)
EXTENDS Integers, Sequences, FiniteSets, TLC

VARIABLES
    data,                 \* pugev.status_logs_v2.json, normalized
    station_data,         \* station_202602182357.json, the "station" list
    df,                   \* the derived dataset of the last run
    selection,            \* what the sidebar widgets returned in the last run
    filtered_df,          \* the filtered view of the last run
    status,               \* "init", "KeyError", "no_data" or "rendered"
    kpi,                  \* <<>> or <<[total, avg_duration]>>
    weekday_avg_sessions, \* <<>> or <<weekday name -> mean>>
    station_summary       \* the station summary table, in row order

vars == <<data, station_data, df, selection, filtered_df, status, kpi,
          weekday_avg_sessions, station_summary>>

(***************************************************************************)
(* Bounds of the model.                                                    *)
(***************************************************************************)
MaxJoinRows == 2
MaxEntries == 2
MaxFilterRows == 2
MaxAggRows == 3
MaxRegionRows == 2

SeqsUpTo(S, n) == UNION {[1..k -> S] : k \in 0..n}

Range(s) == {s[i] : i \in 1..Len(s)}

RECURSIVE SetSum(_, _)
SetSum(S, f) ==
    IF S = {} THEN 0
    ELSE LET x == CHOOSE y \in S : TRUE IN f[x] + SetSum(S \ {x}, f)

RECURSIVE Flatten(_)
Flatten(ss) == IF ss = <<>> THEN <<>> ELSE Head(ss) \o Flatten(Tail(ss))

NaN == [num |-> 0, den |-> 0]

(***************************************************************************)
(* Station master: json.loads of name_obj and the choice of the name.      *)
(***************************************************************************)
NameObjs ==
    { "{\"th\": \"T\", \"en\": \"E\"}",
      "{\"en\": \"E\"}",
      "{}",
      "{\"en\": \"\"}" }

\* json.loads on the documents of NameObjs: a mapping from keys to strings
JsonLoads(s) ==
    CASE s = "{\"th\": \"T\", \"en\": \"E\"}" -> [th |-> "T", en |-> "E"]
      [] s = "{\"en\": \"E\"}" -> [en |-> "E"]
      [] s = "{\"en\": \"\"}" -> [en |-> ""]
      [] s = "{}" -> <<>>

\* dict.get: None (missing) when the key is absent
Get(x, k) == IF k \in DOMAIN x THEN <<x[k]>> ELSE <<>>

\* Python truthiness of dict.get's result: None and "" are falsy
Truthy(o) == o # <<>> /\ o[1] # ""

ParseStationName(x) == IF Truthy(Get(x, "th")) THEN Get(x, "th") ELSE Get(x, "en")

\* station_df: columns station_id, source, station_name
StationMaster(st) ==
    [i \in 1..Len(st) |->
        [station_id |-> st[i].id,
         source |-> st[i].source,
         station_name |-> ParseStationName(JsonLoads(st[i].name_obj))]]

(***************************************************************************)
(* Clean log data.                                                         *)
(***************************************************************************)
weekday_order ==
    <<"Monday", "Tuesday", "Wednesday", "Thursday", "Friday", "Saturday", "Sunday">>

Hour(ts) == ts % 24

Date(ts) == ts \div 24

\* Timestamp.day_name(); day 0 is Thursday 1970-01-01
DayName(d) == weekday_order[((d + 3) % 7) + 1]

\* pd.to_datetime of a date: midnight of that day
ToDatetime(d) == d * 24

\* end_time - start_time, NaN when end_time is NaT
Duration(start, end) == IF end = <<>> THEN <<>> ELSE <<end[1] - start>>

CleanRow(r) ==
    [station_id |-> r.station_id,
     source |-> r.source,
     start_time |-> r.start,
     end_time |-> r.end,
     duration_hour |-> Duration(r.start, r.end),
     latitude |-> r.latitude,
     start_hour |-> Hour(r.start),
     date |-> Date(r.start),
     weekday_name |-> DayName(Date(r.start))]

Clean(d) == [i \in 1..Len(d) |-> CleanRow(d[i])]

(***************************************************************************)
(* Merge station name: a left merge on (station_id, source), then fillna.  *)
(***************************************************************************)
WithName(r, name) ==
    [station_id |-> r.station_id, source |-> r.source,
     start_time |-> r.start_time, end_time |-> r.end_time,
     duration_hour |-> r.duration_hour, latitude |-> r.latitude,
     start_hour |-> r.start_hour, date |-> r.date,
     weekday_name |-> r.weekday_name, station_name |-> name]

\* the rows of the right table with the key of the left row r, in right order
Matches(r, right) ==
    SelectSeq(right, LAMBDA e : e.station_id = r.station_id /\ e.source = r.source)

\* how="left": every left row once per matching right row, once with NaN
\* when nothing matches; left order kept
MergeRow(r, right) ==
    LET m == Matches(r, right) IN
    IF m = <<>> THEN <<WithName(r, <<>>)>>
    ELSE [j \in 1..Len(m) |-> WithName(r, m[j].station_name)]

Merge(left, right) == Flatten([i \in 1..Len(left) |-> MergeRow(left[i], right)])

\* fillna(station_id.astype(str)): only a missing name is replaced
Fillna(r) ==
    WithName(r, IF r.station_name = <<>> THEN ToString(r.station_id)
                ELSE r.station_name[1])

(***************************************************************************)
(* Region.                                                                 *)
(***************************************************************************)
\* region with both thresholds inclusive
regionInclusive(lat) ==
    IF lat >= 17 THEN "North"
    ELSE IF lat >= 13 THEN "Central"
    ELSE "South"

region(lat) ==
    IF lat > 17 THEN "North"
    ELSE IF lat > 13 THEN "Central"
    ELSE "South"

WithRegion(r) ==
    [station_id |-> r.station_id, source |-> r.source,
     start_time |-> r.start_time, end_time |-> r.end_time,
     duration_hour |-> r.duration_hour, latitude |-> r.latitude,
     start_hour |-> r.start_hour, date |-> r.date,
     weekday_name |-> r.weekday_name, station_name |-> r.station_name,
     region |-> region(r.latitude)]

\* df as it stands when the sidebar is built
Derive(d, st) ==
    LET merged == Merge(Clean(d), StationMaster(st)) IN
    [i \in 1..Len(merged) |-> WithRegion(Fillna(merged[i]))]

(***************************************************************************)
(* Sidebar filter: the options and defaults of the widgets.                *)
(***************************************************************************)
Providers(d) == {d[i].source : i \in 1..Len(d)}

Stations(d) == {d[i].station_name : i \in 1..Len(d)}

Regions(d) == {d[i].region : i \in 1..Len(d)}

MinStart(d) == CHOOSE t \in {d[i].start_time : i \in 1..Len(d)} :
    \A i \in 1..Len(d) : t <= d[i].start_time

MaxStart(d) == CHOOSE t \in {d[i].start_time : i \in 1..Len(d)} :
    \A i \in 1..Len(d) : t >= d[i].start_time

\* what the widgets return while the user has touched none of them
Defaults(d) ==
    [providers |-> Providers(d),
     stations |-> Stations(d),
     date_range |-> <<Date(MinStart(d)), Date(MaxStart(d))>>,
     hour_range |-> <<0, 23>>,
     regions |-> Regions(d)]

(***************************************************************************)
(* Apply filter.                                                           *)
(***************************************************************************)
FilterProvider(f, sel) == SelectSeq(f, LAMBDA r : r.source \in sel.providers)

FilterStation(f, sel) == SelectSeq(f, LAMBDA r : r.station_name \in sel.stations)

\* the date filter applied to a date selection of any length
FilterDateAlways(f, sel) ==
    SelectSeq(f, LAMBDA r :
        /\ r.start_time >= ToDatetime(sel.date_range[1])
        /\ r.start_time <= ToDatetime(sel.date_range[Len(sel.date_range)]))

FilterDate(f, sel) ==
    IF Len(sel.date_range) = 2
    THEN SelectSeq(f, LAMBDA r :
            /\ r.start_time >= ToDatetime(sel.date_range[1])
            /\ r.start_time <= ToDatetime(sel.date_range[2]))
    ELSE f

FilterHour(f, sel) ==
    SelectSeq(f, LAMBDA r :
        r.start_hour >= sel.hour_range[1] /\ r.start_hour <= sel.hour_range[2])

FilterRegion(f, sel) == SelectSeq(f, LAMBDA r : r.region \in sel.regions)

\* filtered_df after the five filtering statements, started from the copy d
ApplyFilter(d, sel) ==
    FilterRegion(FilterHour(FilterDate(FilterStation(FilterProvider(d, sel), sel), sel), sel), sel)

\* the script without its empty check
StopsNever(f) == FALSE

\* filtered_df.empty
Stops(f) == f = <<>>

(***************************************************************************)
(* KPI section, weekday averages, station summary.                         *)
(***************************************************************************)
\* a mean that counts a missing value as zero
MeanNaNAsZero(vals) ==
    IF vals = <<>> THEN NaN
    ELSE [num |-> SetSum({i \in 1..Len(vals) : vals[i] # <<>>},
                         [i \in 1..Len(vals) |-> IF vals[i] = <<>> THEN 0 ELSE vals[i][1]]),
          den |-> Len(vals)]

RECURSIVE SeqSum(_)
SeqSum(xs) == IF xs = <<>> THEN 0 ELSE Head(xs)[1] + SeqSum(Tail(xs))

\* Series.mean(): NaN is skipped; NaN when nothing is left
Mean(vals) ==
    LET xs == SelectSeq(vals, LAMBDA v : v # <<>>) IN
    IF xs = <<>> THEN NaN ELSE [num |-> SeqSum(xs), den |-> Len(xs)]

KPI(f) ==
    [total |-> Len(f),
     avg_duration |-> Mean([i \in 1..Len(f) |-> f[i].duration_hour])]

\* groupby(["weekday_name", "date"]).size()
DailyCounts(f) ==
    {[weekday_name |-> g[1], date |-> g[2],
      sessions |-> Cardinality({i \in 1..Len(f) :
                        f[i].weekday_name = g[1] /\ f[i].date = g[2]})] :
        g \in {<<f[i].weekday_name, f[i].date>> : i \in 1..Len(f)}}

\* the one-stage weekday figure: all rows of the weekday, not averaged over days
WeekdayAvgNaive(f) ==
    [w \in Range(weekday_order) |->
        LET n == Cardinality({i \in 1..Len(f) : f[i].weekday_name = w}) IN
        IF n = 0 THEN NaN ELSE [num |-> n, den |-> 1]]

\* groupby("weekday_name")["sessions"].mean().reindex(weekday_order)
WeekdayAvgSessions(f) ==
    [w \in Range(weekday_order) |->
        LET g == {c \in DailyCounts(f) : c.weekday_name = w} IN
        IF g = {} THEN NaN
        ELSE [num |-> SetSum(g, [c \in g |-> c.sessions]), den |-> Cardinality(g)]]

\* the station names of the model in the order groupby sorts them
NameOrder == <<"", "1", "2", "E", "T">>

\* groupby("station_name").agg(sessions=("station_id", "count")): one row a
\* name, in sorted name order
StationGroups(f) ==
    LET present == SelectSeq(NameOrder,
                       LAMBDA n : \E i \in 1..Len(f) : f[i].station_name = n) IN
    [k \in 1..Len(present) |->
        [station_name |-> present[k],
         sessions |-> Cardinality({i \in 1..Len(f) : f[i].station_name = present[k]})]]

\* sort_values with ascending=True
SortValuesAscending(g) ==
    {[k \in 1..Len(g) |-> g[p[k]]] :
        p \in {q \in [1..Len(g) -> 1..Len(g)] :
                 /\ \A a, b \in 1..Len(g) : a # b => q[a] # q[b]
                 /\ \A a, b \in 1..Len(g) : a < b => g[q[a]].sessions <= g[q[b]].sessions}}

\* sort_values("sessions", ascending=False) with the default kind="quicksort",
\* which is not a stable sort: every descending arrangement of the rows is a
\* possible result
SortValues(g) ==
    {[k \in 1..Len(g) |-> g[p[k]]] :
        p \in {q \in [1..Len(g) -> 1..Len(g)] :
                 /\ \A a, b \in 1..Len(g) : a # b => q[a] # q[b]
                 /\ \A a, b \in 1..Len(g) : a < b => g[q[a]].sessions >= g[q[b]].sessions}}

(***************************************************************************)
(* One run of the script.                                                  *)
(***************************************************************************)
\* from the empty check to the end of the script, for the dataset d, the
\* widget values sel and the filtered view f
Render(d, sel, f) ==
    /\ df' = d
    /\ selection' = sel
    /\ filtered_df' = f
    /\ IF Stops(f)
       THEN /\ status' = "no_data"
            /\ kpi' = <<>>
            /\ weekday_avg_sessions' = <<>>
            /\ station_summary' = <<>>
       ELSE /\ status' = "rendered"
            /\ kpi' = <<KPI(f)>>
            /\ weekday_avg_sessions' = <<WeekdayAvgSessions(f)>>
            /\ station_summary' \in SortValues(StationGroups(f))
    /\ UNCHANGED <<data, station_data>>

\* the values of status after a run that reached the empty check
Ran == {"no_data", "rendered"}

\* a run that filters the previous filtered view instead of a copy of df
RunScriptStale(sel) ==
    Render(Derive(data, station_data), sel,
           ApplyFilter(IF status \in Ran THEN filtered_df
                       ELSE Derive(data, station_data), sel))

\* the script with the widgets returning sel: filtered_df = df.copy(), the
\* filters, the empty check, the aggregates
RunScript(sel) ==
    LET d == Derive(data, station_data) IN Render(d, sel, ApplyFilter(d, sel))

\* the page is opened: json_normalize of an empty list has no columns, so the
\* first column access raises KeyError; otherwise the widgets return defaults
FirstRun ==
    /\ status = "init"
    /\ IF data = <<>> \/ station_data = <<>>
       THEN /\ status' = "KeyError"
            /\ UNCHANGED <<data, station_data, df, selection, filtered_df, kpi,
                           weekday_avg_sessions, station_summary>>
       ELSE RunScript(Defaults(Derive(data, station_data)))

\* the user changes the Provider multiselect; the script runs again
SetProvider ==
    /\ status \in Ran
    /\ \E S \in SUBSET Providers(df) :
        /\ S # selection.providers
        /\ RunScript([selection EXCEPT !.providers = S])

SetStation ==
    /\ status \in Ran
    /\ \E S \in SUBSET Stations(df) :
        /\ S # selection.stations
        /\ RunScript([selection EXCEPT !.stations = S])

\* date_input returns one date while the user is picking a range, two after
DateOptions(d) ==
    LET days == {d[i].date : i \in 1..Len(d)} IN
    {<<a>> : a \in days} \cup {<<a, b>> : a, b \in days}

SetDate ==
    /\ status \in Ran
    /\ \E dr \in DateOptions(df) :
        /\ dr # selection.date_range
        /\ Len(dr) = 2 => dr[1] <= dr[2]
        /\ RunScript([selection EXCEPT !.date_range = dr])

HourMarks == {0, 10, 23}

SetHour ==
    /\ status \in Ran
    /\ \E lo, hi \in HourMarks :
        /\ lo <= hi
        /\ <<lo, hi>> # selection.hour_range
        /\ RunScript([selection EXCEPT !.hour_range = <<lo, hi>>])

SetRegion ==
    /\ status \in Ran
    /\ \E S \in SUBSET Regions(df) :
        /\ S # selection.regions
        /\ RunScript([selection EXCEPT !.regions = S])

(***************************************************************************)
(* Specifications: the same script on four families of input files.        *)
(***************************************************************************)
NoSelection ==
    [providers |-> {}, stations |-> {}, date_range |-> <<>>,
     hour_range |-> <<0, 23>>, regions |-> {}]

Opened(rows, n, dirs) ==
    /\ data \in SeqsUpTo(rows, n)
    /\ station_data \in dirs
    /\ df = <<>>
    /\ selection = NoSelection
    /\ filtered_df = <<>>
    /\ status = "init"
    /\ kpi = <<>>
    /\ weekday_avg_sessions = <<>>
    /\ station_summary = <<>>

OneStation == <<[id |-> 1, source |-> "A", name_obj |-> "{\"th\": \"T\", \"en\": \"E\"}"]>>

\* sessions of two stations and two providers against every small directory
JoinRows ==
    [station_id : {1, 2}, source : {"A", "B"}, start : {96}, end : {<<98>>},
     latitude : {14}]

DirEntries == [id : {1}, source : {"A"}, name_obj : NameObjs]

InitJoin == Opened(JoinRows, MaxJoinRows, SeqsUpTo(DirEntries, MaxEntries))

NextJoin == FirstRun \/ SetProvider \/ SetStation

SpecJoin == InitJoin /\ [][NextJoin]_vars

\* sessions at midnight of day 4 and at 10:00 of day 5, of a provider the
\* directory knows and of one it does not
FilterRows ==
    [station_id : {1}, source : {"A", "B"}, start : {96, 130}, end : {<<132>>},
     latitude : {14}]

InitFilter == Opened(FilterRows, MaxFilterRows, {OneStation})

NextFilter == FirstRun \/ SetProvider \/ SetStation \/ SetDate \/ SetHour \/ SetRegion

SpecFilter == InitFilter /\ [][NextFilter]_vars

\* sessions on Monday day 4, Tuesday day 5 and Monday day 11, with and
\* without an end time
AggRows ==
    [station_id : {1, 2}, source : {"A"}, start : {106, 130, 264},
     end : {<<>>, <<270>>}, latitude : {14}]

InitAgg == Opened(AggRows, MaxAggRows, {OneStation})

NextAgg == FirstRun \/ SetStation

SpecAgg == InitAgg /\ [][NextAgg]_vars

\* sessions at every latitude from 12 to 18 degrees
RegionRows ==
    [station_id : {1}, source : {"A"}, start : {96}, end : {<<108>>},
     latitude : 12..18]

InitRegion == Opened(RegionRows, MaxRegionRows, {OneStation})

NextRegion == FirstRun \/ SetRegion

SpecRegion == InitRegion /\ [][NextRegion]_vars

(***************************************************************************)
(* Properties.                                                             *)
(***************************************************************************)
SameFraction(a, b) == (a.den = 0 <=> b.den = 0) /\ a.num * b.den = b.num * a.den

\* C1: the join outputs exactly one row per session row, in order, whatever
\* the station directory holds: no row dropped, no row duplicated.
C1_JoinTotality ==
    status \in Ran =>
        /\ Len(df) = Len(data)
        /\ \A i \in 1..Len(df) :
            df[i].station_id = data[i].station_id /\ df[i].source = data[i].source

\* the directory entries with the key of row r
EntriesOf(r) ==
    {i \in 1..Len(station_data) :
        station_data[i].id = r.station_id /\ station_data[i].source = r.source}

\* the name the resolution policy gives row r from directory entry e: th when
\* present and non-empty, else en when present and non-empty, else str(station_id)
PolicyName(r, e) ==
    LET x == JsonLoads(e.name_obj) IN
    IF "th" \in DOMAIN x /\ x["th"] # "" THEN x["th"]
    ELSE IF "en" \in DOMAIN x /\ x["en"] # "" THEN x["en"]
    ELSE ToString(r.station_id)

\* C3: every row's station_name is the th name of its directory entry when
\* that is present and non-empty, else the en name when present and non-empty,
\* else str(station_id) (also when no entry matches); it is never empty.
C3_NameResolution ==
    status \in Ran =>
        \A i \in 1..Len(df) :
            /\ df[i].station_name # ""
            /\ IF EntriesOf(df[i]) = {}
               THEN df[i].station_name = ToString(df[i].station_id)
               ELSE \E k \in EntriesOf(df[i]) :
                        df[i].station_name = PolicyName(df[i], station_data[k])

\* the five predicates of the filter contract, the date one on calendar dates
InSelection(r, sel) ==
    /\ r.source \in sel.providers
    /\ r.station_name \in sel.stations
    /\ sel.date_range[1] <= r.date /\ r.date <= sel.date_range[2]
    /\ sel.hour_range[1] <= r.start_hour /\ r.start_hour <= sel.hour_range[2]
    /\ r.region \in sel.regions

\* C2: with a two-date range, the filtered view is exactly the rows of df that
\* satisfy all five predicates, the date range inclusive on both calendar days.
C2_FilterConjunction ==
    (status \in Ran /\ Len(selection.date_range) = 2) =>
        filtered_df = SelectSeq(df, LAMBDA r : InSelection(r, selection))

\* C5: region is North above 17 degrees, Central above 13 up to and including
\* 17, South up to and including 13, and every session row has such a region.
C5_RegionBoundaries ==
    status \in Ran =>
        /\ Len(df) = Len(data)
        /\ \A i \in 1..Len(df) :
            /\ df[i].latitude = data[i].latitude
            /\ df[i].latitude > 17 => df[i].region = "North"
            /\ (df[i].latitude > 13 /\ df[i].latitude <= 17) => df[i].region = "Central"
            /\ df[i].latitude <= 13 => df[i].region = "South"

\* rows exactly on both boundaries and one just above the upper one
C5_Witness ==
    /\ status = "rendered"
    /\ \E i, j \in 1..Len(df) :
        /\ df[i].latitude = 17 /\ df[i].region = "Central"
        /\ df[j].latitude = 13 /\ df[j].region = "South"

\* C6: a run whose filtered view is empty ends in the "no data" state with no
\* aggregate computed, and a run computes the aggregates only for a non-empty
\* filtered view; an empty view is never an error.
C6_EmptyResult ==
    /\ status \in Ran =>
        /\ filtered_df = <<>> <=> status = "no_data"
        /\ status = "no_data" =>
            kpi = <<>> /\ weekday_avg_sessions = <<>> /\ station_summary = <<>>
        /\ status = "rendered" =>
            kpi # <<>> /\ weekday_avg_sessions # <<>> /\ station_summary # <<>>
    /\ status = "KeyError" => (data = <<>> \/ station_data = <<>>)

\* no selected provider occurs in a dataset that has rows
C6_Witness ==
    /\ status = "no_data"
    /\ df # <<>>
    /\ selection.providers \cap Providers(df) = {}
    /\ selection.stations = Stations(df)
    /\ selection.regions = Regions(df)

\* C7: after every run the filtered view is the filter applied to the whole
\* derived dataset under the selection of that run alone, and a run after the
\* first leaves the derived dataset as it was.
C7_Stateless ==
    [][/\ status' \in Ran => filtered_df' = ApplyFilter(df', selection')
       /\ status \in Ran => df' = df]_vars

\* two widgets away from their defaults, so at least two interactions, and
\* a view that is neither empty nor the whole dataset
C7_Witness ==
    /\ status = "rendered"
    /\ selection.providers # Providers(df)
    /\ selection.hour_range # <<0, 23>>
    /\ Len(filtered_df) < Len(df)

\* C10: when the date selection does not hold two dates, the filtered view is
\* exactly the rows that pass the provider, station, hour and region
\* predicates, whatever their date.
C10_NoDateFilter ==
    (status \in Ran /\ Len(selection.date_range) # 2) =>
        filtered_df = SelectSeq(df, LAMBDA r :
            /\ r.source \in selection.providers
            /\ r.station_name \in selection.stations
            /\ selection.hour_range[1] <= r.start_hour
            /\ r.start_hour <= selection.hour_range[2]
            /\ r.region \in selection.regions)

\* only a start date is picked and a session of another day, not at midnight,
\* is in the view
C10_Witness ==
    /\ status = "rendered"
    /\ Len(selection.date_range) = 1
    /\ \E i \in 1..Len(filtered_df) :
        /\ filtered_df[i].date # selection.date_range[1]
        /\ filtered_df[i].start_hour # 0

\* C4: for every weekday that occurs in the filtered view, the weekday average
\* is the number of its rows on that weekday divided by the number of distinct
\* dates of that weekday in it.
C4_WeekdayAverage ==
    status = "rendered" =>
        \A w \in {filtered_df[i].weekday_name : i \in 1..Len(filtered_df)} :
            SameFraction(
                weekday_avg_sessions[1][w],
                [num |-> Cardinality({i \in 1..Len(filtered_df) :
                                        filtered_df[i].weekday_name = w}),
                 den |-> Cardinality({filtered_df[i].date : i \in
                            {j \in 1..Len(filtered_df) :
                                filtered_df[j].weekday_name = w}})])

\* two Mondays, one with two sessions and one with one: the average is 3/2
C4_Witness ==
    /\ status = "rendered"
    /\ Cardinality({i \in 1..Len(filtered_df) : filtered_df[i].date = 4}) = 2
    /\ Cardinality({i \in 1..Len(filtered_df) : filtered_df[i].date = 11}) = 1
    /\ SameFraction(weekday_avg_sessions[1]["Monday"], [num |-> 3, den |-> 2])

NamePos(n) == CHOOSE k \in 1..Len(NameOrder) : NameOrder[k] = n

\* C8 as amended: the station summary has exactly one entry per station name of
\* the filtered view, with the number of its rows, in descending order of count.
C8_StationRollup ==
    status = "rendered" =>
        /\ {station_summary[k].station_name : k \in 1..Len(station_summary)}
              = Stations(filtered_df)
        /\ \A a, b \in 1..Len(station_summary) :
              a # b => station_summary[a].station_name # station_summary[b].station_name
        /\ \A k \in 1..Len(station_summary) :
              station_summary[k].sessions =
                  Cardinality({i \in 1..Len(filtered_df) :
                      filtered_df[i].station_name = station_summary[k].station_name})
        /\ \A a, b \in 1..Len(station_summary) :
              a < b => station_summary[a].sessions >= station_summary[b].sessions

\* C8 as claimed: moreover entries with equal counts stand in the order the
\* grouping emitted them, the sorted order of the station names.
C8_StableTies ==
    /\ C8_StationRollup
    /\ status = "rendered" =>
        \A a, b \in 1..Len(station_summary) :
            (a < b /\ station_summary[a].sessions = station_summary[b].sessions)
                => NamePos(station_summary[a].station_name)
                     < NamePos(station_summary[b].station_name)

\* two stations, the one with more sessions first although its name sorts last
C8_Witness ==
    /\ status = "rendered"
    /\ Len(station_summary) = 2
    /\ station_summary[1].sessions > station_summary[2].sessions
    /\ NamePos(station_summary[1].station_name) > NamePos(station_summary[2].station_name)

\* C9: a session without end time is in the dataset with an undefined duration
\* and the run does not fail; the mean duration of the filtered view is the mean
\* of its defined durations, and undefined when it has none.
C9_MissingEndTime ==
    /\ status = "KeyError" => data = <<>>
    /\ status \in Ran =>
        \A i \in 1..Len(data) : data[i].end = <<>> =>
            \E j \in 1..Len(df) :
                /\ df[j].station_id = data[i].station_id
                /\ df[j].start_time = data[i].start
                /\ df[j].duration_hour = <<>>
    /\ status = "rendered" =>
        LET defined == {i \in 1..Len(filtered_df) : filtered_df[i].duration_hour # <<>>} IN
        IF defined = {} THEN kpi[1].avg_duration = NaN
        ELSE SameFraction(
                kpi[1].avg_duration,
                [num |-> SetSum(defined,
                            [i \in defined |-> filtered_df[i].duration_hour[1]]),
                 den |-> Cardinality(defined)])

\* a view with a session without end time beside sessions that have one
C9_Witness ==
    /\ status = "rendered"
    /\ \E i, j \in 1..Len(filtered_df) :
        filtered_df[i].duration_hour = <<>> /\ filtered_df[j].duration_hour # <<>>
    /\ kpi[1].avg_duration.den < kpi[1].total

====
